---- MODULE Spec2Model ----
(***************************************************************************)
(* A model of the download relay of GhostDraco/Youtube.  The repository    *)
(* holds two revisions of the same HTTP handler:                           *)
(*   src/api/download.js    (CommonJS, "download")                         *)
(*   src/unnamed/part_000   (ES module, "part_000")                        *)
(* One request is modelled from the handler's entry to the end of its      *)
(* response, together with the events its listeners react to: the          *)
(* settling of ytdl.getInfo, the 'data' / 'end' / 'error' events of the     *)
(* stream returned by ytdl(), and the 'close' event of the client          *)
(* connection.                                                             *)
(***************************************************************************)
EXTENDS Integers, Sequences, FiniteSets, TLC

VARIABLES
  impl,          \* which revision of the handler serves the request
  req,           \* the inbound request: [method, url]
  cookieFile,    \* cookies.txt as the file system holds it
  pc,            \* the position of the async handler function
  fsCalls,       \* calls made to fs (existsSync, readFileSync), in order
  cookieHeader,  \* let cookieHeader
  requestOptions,\* const requestOptions
  resolverCalls, \* calls made to ytdl.getInfo and ytdl(), with their options
  info,          \* the value ytdl.getInfo resolved with
  thrown,        \* the value the catch block received
  selectedFormat,\* var selectedFormat
  res,           \* the response object
  videoStream,   \* the stream returned by ytdl()
  closeListener, \* req.on('close', ...) has been registered
  clientClosed,  \* the client connection has closed
  hist           \* history of the run, read by the properties only

vars == <<impl, req, cookieFile, pc, fsCalls, cookieHeader, requestOptions, resolverCalls,
          info, thrown, selectedFormat, res, videoStream, closeListener,
          clientClosed, hist>>

(***************************************************************************)
(* Bounds of the model.                                                    *)
(***************************************************************************)
MaxFormats == 2       \* longest info.formats list the resolver answers with
MaxChunks == 2        \* chunks the upstream stream delivers at most
MaxStreamErrors == 2  \* 'error' events the upstream stream emits at most
MaxCookieLines == 2   \* lines of the cookie files the parsing is checked on
HighWaterMark == 1    \* chunks the response buffers before write returns false

Impls == {"download", "part_000"}

None == [none |-> TRUE]

Min(a, b) == IF a <= b THEN a ELSE b

(***************************************************************************)
(* Variant descriptors (ytdl-core formats).  height 0 stands for a format  *)
(* without a height (format.height || 0), contentLength "" for a format    *)
(* whose contentLength is missing (falsy).                                 *)
(***************************************************************************)
Fmt(c, v, a, h, cl) ==
  [container |-> c, hasVideo |-> v, hasAudio |-> a, height |-> h,
   contentLength |-> cl]

FormatShapes ==
  { Fmt("mp4",  TRUE,  TRUE,  360, "9"),
    Fmt("mp4",  TRUE,  TRUE,  720, ""),
    Fmt("webm", TRUE,  TRUE,  144, "9"),
    Fmt("mp4",  TRUE,  FALSE, 1080, "9"),
    Fmt("webm", TRUE,  FALSE, 144, ""),
    Fmt("mp4",  FALSE, TRUE,  0, "9") }

WithItag(shape, i) ==
  [itag |-> i, container |-> shape.container, hasVideo |-> shape.hasVideo,
   hasAudio |-> shape.hasAudio, height |-> shape.height,
   contentLength |-> shape.contentLength]

\* The lists the resolver can answer with: the itag tells equal shapes apart.
FormatLists ==
  UNION { { [i \in 1..n |-> WithItag(shape[i], i)] : shape \in [1..n -> FormatShapes] }
          : n \in 0..MaxFormats }

IsCombined(f) == f.hasVideo /\ f.hasAudio
IsMp4Combined(f) == f.container = "mp4" /\ f.hasVideo /\ f.hasAudio
HasVideo(f) == f.hasVideo

\* ytdl.filterFormats(formats, 'videoandaudio')
FilterVideoAndAudio(formats) == SelectSeq(formats, IsCombined)

getHeight(format) == format.height

RECURSIVE InsertByHeight(_, _)
\* Insert f after every element that does not compare greater: the stable order.
InsertByHeight(sorted, f) ==
  IF sorted = <<>> THEN <<f>>
  ELSE IF getHeight(Head(sorted)) - getHeight(f) > 0
       THEN <<f>> \o sorted
       ELSE <<Head(sorted)>> \o InsertByHeight(Tail(sorted), f)

RECURSIVE SortByHeight(_)
\* formats.sort((a, b) => getHeight(a) - getHeight(b)), a stable sort.
SortByHeight(formats) ==
  IF formats = <<>> THEN <<>>
  ELSE InsertByHeight(SortByHeight(SubSeq(formats, 1, Len(formats) - 1)),
                      formats[Len(formats)])

(***************************************************************************)
(* Strings are sequences of one-character strings.                         *)
(***************************************************************************)
Whitespace == {" ", "\t", "\r", "\n"}

RECURSIVE TrimStart(_)
TrimStart(s) ==
  IF s # <<>> /\ Head(s) \in Whitespace THEN TrimStart(Tail(s)) ELSE s

RECURSIVE TrimEnd(_)
TrimEnd(s) ==
  IF s # <<>> /\ s[Len(s)] \in Whitespace
  THEN TrimEnd(SubSeq(s, 1, Len(s) - 1)) ELSE s

\* String.prototype.trim
Trim(s) == TrimEnd(TrimStart(s))

\* String.prototype.startsWith
StartsWith(s, prefix) ==
  Len(s) >= Len(prefix) /\ SubSeq(s, 1, Len(prefix)) = prefix

RECURSIVE Split(_, _)
\* String.prototype.split with a one-character separator: always at least
\* one part, empty parts kept.
Split(s, sep) ==
  IF \A i \in 1..Len(s) : s[i] # sep THEN <<s>>
  ELSE LET k == CHOOSE i \in 1..Len(s) :
                  s[i] = sep /\ \A j \in 1..(i - 1) : s[j] # sep
       IN <<SubSeq(s, 1, k - 1)>> \o Split(SubSeq(s, k + 1, Len(s)), sep)

RECURSIVE Join(_, _)
\* Array.prototype.join
Join(parts, sep) ==
  IF parts = <<>> THEN <<>>
  ELSE IF Len(parts) = 1 THEN parts[1]
  ELSE parts[1] \o sep \o Join(Tail(parts), sep)

(***************************************************************************)
(* The cookie file (cookies.txt in the working directory).                 *)
(***************************************************************************)
\* One line of the Netscape format:
\* domain \t flag \t path \t secure \t expiration \t name \t value
NetscapeLine(name, value) ==
  <<"d", "\t", "T", "\t", "/", "\t", "F", "\t", "0", "\t">> \o name \o <<"\t">> \o value

CookieContents ==
  { <<>>,
    <<"#", " ", "c">>,
    NetscapeLine(<<"a">>, <<"1">>),
    <<"#", "c", "\n">> \o NetscapeLine(<<"a">>, <<"1">>) \o <<"\n">>
       \o NetscapeLine(<<"b">>, <<"2">>) \o <<"\n">> }

\* What the file system answers: the file is absent, or it is there and the
\* read throws, or it is there and the read returns its content.
CookieSources ==
  { [exists |-> FALSE, readable |-> FALSE, content |-> <<>>],
    [exists |-> TRUE, readable |-> FALSE, content |-> <<>>] }
  \cup { [exists |-> TRUE, readable |-> TRUE, content |-> c] : c \in CookieContents }

\* The kinds of line a cookie file is made of: two well-formed lines, the
\* two comment markers, an empty and a blank line, a line of too few fields,
\* a line without value, a line without name, an indented comment that has
\* seven fields, a line that ends in a carriage return, a line of eight
\* fields.
CookieLines ==
  { NetscapeLine(<<"a">>, <<"1">>),
    NetscapeLine(<<"b">>, <<"2">>),
    <<"#", "c">>,
    <<"/", "/", "c">>,
    <<>>,
    <<" ">>,
    <<"d", "\t", "x">>,
    NetscapeLine(<<"a">>, <<>>),
    NetscapeLine(<<>>, <<"1">>),
    <<" ", "#">> \o NetscapeLine(<<"a">>, <<"1">>),
    NetscapeLine(<<"a">>, <<"1">>) \o <<"\r">>,
    NetscapeLine(<<"a">>, <<"1">>) \o <<"\t", "x">> }

\* The files of up to MaxCookieLines of these lines.
CookieFiles ==
  UNION { { Join(lines, <<"\n">>) : lines \in [1..n -> CookieLines] }
          : n \in 0..MaxCookieLines }

\* The file system states the cookie parsing is checked on.
CookieSourcesOfFiles ==
  { [exists |-> FALSE, readable |-> FALSE, content |-> <<>>],
    [exists |-> TRUE, readable |-> FALSE, content |-> <<>>] }
  \cup { [exists |-> TRUE, readable |-> TRUE, content |-> c] : c \in CookieFiles }

\* download.js, the body of the loop over cookieLines: the tokens one line adds.
CookieTokensOfLine(line) ==
  LET trimmedLine == Trim(line)
      parts == Split(trimmedLine, "\t")
  IN IF trimmedLine = <<>> \/ StartsWith(trimmedLine, <<"#">>)
        \/ StartsWith(trimmedLine, <<"/", "/">>)
     THEN <<>>
     ELSE IF Len(parts) >= 7
          THEN LET cookieName == parts[6]
                   cookieValue == parts[7]
               IN IF cookieName # <<>> /\ cookieValue # <<>>
                  THEN << cookieName \o <<"=">> \o cookieValue >>
                  ELSE <<>>
          ELSE <<>>

RECURSIVE CollectCookies(_)
CollectCookies(cookieLines) ==
  IF cookieLines = <<>> THEN <<>>
  ELSE CookieTokensOfLine(Head(cookieLines)) \o CollectCookies(Tail(cookieLines))

\* download.js: the cookie header built from the content of the file.
ParseCookies(cookiesContent) ==
  LET cookies == CollectCookies(Split(cookiesContent, "\n"))
  IN IF Len(cookies) > 0 THEN Join(cookies, <<";", " ">>) ELSE <<>>

\* part_000: the filter of the lines, which tests the untrimmed line for the
\* comment markers.
KeepsLine000(line) ==
  Trim(line) # <<>> /\ ~StartsWith(line, <<"#">>) /\ ~StartsWith(line, <<"/", "/">>)

\* part_000: the map of a kept line, null (no token) below 7 fields.
CookieTokensOfLine000(line) ==
  LET parts == Split(line, "\t")
  IN IF Len(parts) >= 7 THEN << parts[6] \o <<"=">> \o parts[7] >> ELSE <<>>

RECURSIVE CollectCookies000(_)
CollectCookies000(cookieLines) ==
  IF cookieLines = <<>> THEN <<>>
  ELSE (IF KeepsLine000(Head(cookieLines))
        THEN CookieTokensOfLine000(Head(cookieLines)) ELSE <<>>)
       \o CollectCookies000(Tail(cookieLines))

\* part_000: the cookie header built from the content of the file.
ParseCookies000(cookiesContent) ==
  LET cookies == CollectCookies000(Split(cookiesContent, "\n"))
  IN IF Len(cookies) > 0 THEN Join(cookies, <<";", " ">>) ELSE <<>>

\* Both revisions, section 3: existsSync, then readFileSync inside its own
\* try, whose catch leaves cookieHeader empty.  The result is the calls made
\* to fs and the header.
LoadCookies(revision, source) ==
  LET parse(c) == IF revision = "download" THEN ParseCookies(c) ELSE ParseCookies000(c)
      checks == IF revision = "download" THEN <<"existsSync">>
                ELSE <<"existsSync", "existsSync">>
  IN IF ~source.exists
     THEN [calls |-> checks, header |-> <<>>]
     ELSE [calls |-> checks \o <<"readFileSync">>,
           header |-> IF source.readable THEN parse(source.content) ELSE <<>>]

\* Request options that carry the headers whatever the cookie header is.
BuildRequestOptionsAlways(revision, header) ==
  [headers |-> IF revision = "download"
               THEN [Cookie |-> header, UserAgent |-> "Mozilla/5.0"]
               ELSE [Cookie |-> header]]

\* Both revisions, section 4: headers only with a non-empty cookie header.
BuildRequestOptions(revision, header) ==
  IF header # <<>>
  THEN [headers |-> IF revision = "download"
                    THEN [Cookie |-> header, UserAgent |-> "Mozilla/5.0"]
                    ELSE [Cookie |-> header]]
  ELSE [empty |-> TRUE]

(***************************************************************************)
(* Thrown values.  An Error carries a message, of which the model keeps    *)
(* the keywords the catch block looks for (message.includes) and the       *)
(* length.  A promise may also reject with a value that is no Error.       *)
(***************************************************************************)
Keywords == {"private", "unavailable", "cookies", "authentication", "format"}

DetailsCap == 100     \* error.message.substring(0, 100)
ShortMessage == 20    \* a message below the cap
LongMessage == 150    \* a message above the cap

ErrorObject(keys, len) == [shape |-> "Error", keys |-> keys, len |-> len]
NonError(shape) == [shape |-> shape, keys |-> {}, len |-> 0]

Messages ==
  { [keys |-> k, len |-> l] :
      k \in { {}, {"private"}, {"unavailable"}, {"cookies"}, {"authentication"},
              {"format"}, {"format", "private"}, {"format", "cookies"} },
      l \in {ShortMessage, LongMessage} }

\* What ytdl.getInfo can reject with.
RejectionValues ==
  { ErrorObject(m.keys, m.len) : m \in Messages }
  \cup { NonError("string"), NonError("undefined") }

\* What the call ytdl(url, options) can throw.
OpenThrowValues ==
  { ErrorObject({}, LongMessage), ErrorObject({"private"}, ShortMessage),
    ErrorObject({"format"}, LongMessage), NonError("string") }

\* What the stream's 'error' event carries.
StreamErrorValues == { ErrorObject({}, ShortMessage), ErrorObject({}, LongMessage) }

\* error.message
MessageOf(error) == [keys |-> error.keys, len |-> error.len]

\* message.includes(word)
Includes(message, word) == word \in message.keys

\* message.substring(0, n): the length is what the model keeps exact
Substring(message, n) == [keys |-> message.keys, len |-> Min(message.len, n)]

(***************************************************************************)
(* The response object.                                                    *)
(***************************************************************************)
NewResponse ==
  [statusCode |-> 200,
   headers |-> <<>>,         \* header name -> value, for the headers set
   headersSent |-> FALSE,
   finished |-> FALSE,       \* res.end() has been called
   json |-> <<>>,            \* the payloads sent with res.json, in order
   body |-> <<>>,            \* the chunks written by the pipe, in order
   pending |-> 0]            \* chunks written that the socket has not taken yet

\* res.setHeader(name, value)
SetHeader(r, name, value) == [r EXCEPT !.headers = (name :> value) @@ @]

\* res.status(code).json(payload): the payload is the whole response.
StatusJson(r, code, payload) ==
  [r EXCEPT !.statusCode = code,
            !.headers = ("Content-Type" :> "application/json") @@ @,
            !.headersSent = TRUE,
            !.finished = TRUE,
            !.json = Append(@, [status |-> code, payload |-> payload])]

\* res.write(chunk), as the pipe calls it: the first write sends the headers.
\* A response whose connection has closed takes no write.
Write(r, chunk, closed) ==
  IF closed \/ r.finished THEN r
  ELSE [r EXCEPT !.headersSent = TRUE, !.body = Append(@, chunk), !.pending = @ + 1]

\* A write that always reports room in the buffer.
WriteReturnsTrue(r, closed) == TRUE

\* What res.write returns to the pipe: false when the response takes no
\* write, or when the chunk fills its buffer up to the high-water mark.
WriteReturns(r, closed) ==
  ~(closed \/ r.finished) /\ r.pending + 1 < HighWaterMark

\* A pipe that leaves the response open when the source ends.
EndSkipped(r, closed) == r

\* res.end(), as the pipe calls it when the source ends.
End(r, closed) ==
  IF closed \/ r.finished THEN r
  ELSE [r EXCEPT !.headersSent = TRUE, !.finished = TRUE]

ErrorOnly(text) == ("error" :> text)
ErrorWith(text, field, value) == ("error" :> text) @@ (field :> value)

(***************************************************************************)
(* The catch block of the handler.  The result tells whether the block     *)
(* itself threw (reading .message of undefined, or calling .includes on a   *)
(* message that is undefined), which rejects the handler's promise.        *)
(***************************************************************************)
Escapes(r) == [escaped |-> TRUE, res |-> r]
Responds(r) == [escaped |-> FALSE, res |-> r]

\* CatchBlock with the test for 'format' moved to the front.
CatchBlockFormatFirst(error, r) ==
  IF error.shape # "Error" THEN Escapes(r)
  ELSE LET message == MessageOf(error)
       IN IF Includes(message, "format")
          THEN Responds(StatusJson(r, 400,
                 ErrorWith("No supported format available", "details", message)))
          ELSE IF Includes(message, "private") \/ Includes(message, "unavailable")
          THEN Responds(StatusJson(r, 403,
                 ErrorWith("Video is private or unavailable", "note", "cookies.txt")))
          ELSE IF Includes(message, "cookies") \/ Includes(message, "authentication")
          THEN Responds(StatusJson(r, 403,
                 ErrorWith("Authentication required", "note", "cookies.txt")))
          ELSE Responds(StatusJson(r, 500,
                 ErrorWith("Failed to process download request", "details",
                           Substring(message, DetailsCap))))

\* src/api/download.js
CatchBlock(error, r) ==
  IF error.shape # "Error" THEN Escapes(r)
  ELSE LET message == MessageOf(error)
       IN IF Includes(message, "private") \/ Includes(message, "unavailable")
          THEN Responds(StatusJson(r, 403,
                 ErrorWith("Video is private or unavailable", "note", "cookies.txt")))
          ELSE IF Includes(message, "cookies") \/ Includes(message, "authentication")
          THEN Responds(StatusJson(r, 403,
                 ErrorWith("Authentication required", "note", "cookies.txt")))
          ELSE IF Includes(message, "format")
          THEN Responds(StatusJson(r, 400,
                 ErrorWith("No supported format available", "details", message)))
          ELSE Responds(StatusJson(r, 500,
                 ErrorWith("Failed to process download request", "details",
                           Substring(message, DetailsCap))))

\* src/unnamed/part_000
CatchBlock000(error, r) ==
  IF error.shape # "Error" THEN Escapes(r)
  ELSE LET message == MessageOf(error)
       IN IF Includes(message, "private") \/ Includes(message, "unavailable")
          THEN Responds(StatusJson(r, 403,
                 ErrorOnly("Video unavailable. This might require authentication.")))
          ELSE IF Includes(message, "cookies")
          THEN Responds(StatusJson(r, 403,
                 ErrorOnly("Authentication required. Check cookies.txt file.")))
          ELSE Responds(StatusJson(r, 500,
                 ErrorWith("Failed to process download request", "details", message)))

Catch(revision, error, r) ==
  IF revision = "download" THEN CatchBlock(error, r) ELSE CatchBlock000(error, r)

(***************************************************************************)
(* Section 6 of the handler: the choice of the format.                     *)
(***************************************************************************)
Found(format) == [found |-> TRUE, format |-> format]
NotFound == [found |-> FALSE, format |-> None]

\* SelectFormat with a fallback that forgets the hasVideo filter.
SelectFormatAnyFallback(infoFormats) ==
  LET formats == FilterVideoAndAudio(infoFormats)
  IN IF Len(formats) = 0
     THEN IF Len(infoFormats) = 0 THEN NotFound ELSE Found(infoFormats[1])
     ELSE Found(formats[1])

\* src/api/download.js: the first combined format, else the first format
\* with video, else the 400 response.
SelectFormat(infoFormats) ==
  LET formats == FilterVideoAndAudio(infoFormats)
  IN IF Len(formats) = 0
     THEN LET videoFormats == SelectSeq(infoFormats, HasVideo)
          IN IF Len(videoFormats) = 0 THEN NotFound ELSE Found(videoFormats[1])
     ELSE Found(formats[1])

\* src/unnamed/part_000: the lowest of the combined mp4 formats, else the
\* 400 response.
SelectFormat000(infoFormats) ==
  LET formats == SelectSeq(infoFormats, IsMp4Combined)
  IN IF Len(formats) = 0 THEN NotFound
     ELSE LET sortedFormats == SortByHeight(formats)
          IN Found(sortedFormats[1])

Select(revision, infoFormats) ==
  IF revision = "download" THEN SelectFormat(infoFormats)
  ELSE SelectFormat000(infoFormats)

NoFormatPayload(revision) ==
  IF revision = "download"
  THEN ErrorOnly("No downloadable format available for this video")
  ELSE ErrorOnly("No MP4 format available for this video")

(***************************************************************************)
(* Section 7 of the handler: the file name and the download headers.       *)
(***************************************************************************)
FilenameCap == 100      \* download.js: .substring(0, 100)
FilenameCap000 == 50    \* part_000: .substring(0, 50)

Forbidden == {"<", ">", ":", "\"", "/", "\\", "|", "?", "*"}

Alphanumeric ==
  {"a", "b", "c", "d", "e", "f", "g", "h", "i", "j", "k", "l", "m", "n", "o",
   "p", "q", "r", "s", "t", "u", "v", "w", "x", "y", "z",
   "A", "B", "C", "D", "E", "F", "G", "H", "I", "J", "K", "L", "M", "N", "O",
   "P", "Q", "R", "S", "T", "U", "V", "W", "X", "Y", "Z",
   "0", "1", "2", "3", "4", "5", "6", "7", "8", "9"}

\* .replace(/[<>:"/\\|?*]/g, '_')
ReplaceForbidden(s) == [i \in 1..Len(s) |-> IF s[i] \in Forbidden THEN "_" ELSE s[i]]

RECURSIVE CollapseWhitespace(_)
\* .replace(/\s+/g, '_'): each run of whitespace becomes one underscore
CollapseWhitespace(s) ==
  IF s = <<>> THEN <<>>
  ELSE IF Head(s) \in Whitespace
       THEN <<"_">> \o CollapseWhitespace(TrimStart(s))
       ELSE <<Head(s)>> \o CollapseWhitespace(Tail(s))

\* .replace(/[^a-z0-9]/gi, '_')
ReplaceNonAlphanumeric(s) ==
  [i \in 1..Len(s) |-> IF s[i] \in Alphanumeric THEN s[i] ELSE "_"]

Video == <<"v", "i", "d", "e", "o">>

\* src/api/download.js
SafeFilename(title) ==
  LET clean == CollapseWhitespace(ReplaceForbidden(title))
      cut == SubSeq(clean, 1, Min(Len(clean), FilenameCap))
  IN IF cut = <<>> THEN Video ELSE cut

\* src/unnamed/part_000
SafeFilename000(title) ==
  LET clean == ReplaceNonAlphanumeric(title)
      cut == SubSeq(clean, 1, Min(Len(clean), FilenameCap000))
  IN IF cut = <<>> THEN Video ELSE cut

Titles == { <<>>, <<"a", "/", " ", " ", "b">> }

\* src/api/download.js: Content-Length only when the format has one.
DownloadHeaders(title, format, r) ==
  LET r1 == SetHeader(r, "Content-Type", "video/mp4")
      r2 == SetHeader(r1, "Content-Disposition", SafeFilename(title) \o <<".", "m", "p", "4">>)
  IN IF format.contentLength # ""
     THEN SetHeader(r2, "Content-Length", format.contentLength)
     ELSE r2

\* src/unnamed/part_000: Content-Length always, 'unknown' without a length.
DownloadHeaders000(title, format, r) ==
  LET r1 == SetHeader(r, "Content-Type", "video/mp4")
      r2 == SetHeader(r1, "Content-Disposition", SafeFilename000(title) \o <<".", "m", "p", "4">>)
  IN SetHeader(r2, "Content-Length",
               IF format.contentLength # "" THEN format.contentLength ELSE "unknown")

SetDownloadHeaders(revision, title, format, r) ==
  IF revision = "download" THEN DownloadHeaders(title, format, r)
  ELSE DownloadHeaders000(title, format, r)

(***************************************************************************)
(* The stream returned by ytdl() and the listeners put on it.              *)
(***************************************************************************)
NoStream ==
  [state |-> "none",      \* none, open, ended, errored, destroyed
   piped |-> FALSE,       \* videoStream.pipe(res) is in place
   flowing |-> FALSE,     \* the pipe reads the source
   produced |-> 0,        \* chunks the stream has emitted
   errors |-> 0]          \* 'error' events the stream has emitted

OpenedStream == [NoStream EXCEPT !.state = "open", !.piped = TRUE, !.flowing = TRUE]

StreamFailedPayload(revision, streamError) ==
  IF revision = "download"
  THEN ErrorWith("Stream failed", "details", MessageOf(streamError))
  ELSE ErrorOnly("Stream failed")

\* StreamErrorListener without the test of res.headersSent.
StreamErrorListenerUnguarded(revision, streamError, r) ==
  StatusJson(r, 500, StreamFailedPayload(revision, streamError))

\* videoStream.on('error', ...): a payload only while no header has gone out.
StreamErrorListener(revision, streamError, r) ==
  IF ~r.headersSent
  THEN StatusJson(r, 500, StreamFailedPayload(revision, streamError))
  ELSE r

\* req.on('close', ...): videoStream.destroy().  A stream that has ended
\* stays ended.
Destroy(stream) ==
  IF stream.state \in {"open", "errored"}
  THEN [stream EXCEPT !.state = "destroyed", !.piped = FALSE, !.flowing = FALSE]
  ELSE [stream EXCEPT !.piped = FALSE, !.flowing = FALSE]

\* The pipe's own listener on the 'close' of the response: unpipe.
Unpipe(stream) == [stream EXCEPT !.piped = FALSE, !.flowing = FALSE]

(***************************************************************************)
(* The request.                                                            *)
(***************************************************************************)
Methods == {"GET", "POST"}
Urls == {"", "not-a-valid-id", "https://youtu.be/dQw4w9WgXcQ"}

\* ytdl.validateURL
ValidateURL(url) == url = "https://youtu.be/dQw4w9WgXcQ"

NoInfo == [resolved |-> FALSE, formats |-> <<>>, title |-> <<>>]
NothingThrown == NonError("none")

NoHistory ==
  [closedAt |-> "open",   \* where the handler stood when the client closed
   bodyAtClose |-> 0,     \* chunks written when the client closed
   jsonAtClose |-> 0,     \* payloads sent when the client closed
   streamAtClose |-> "none", \* the stream's state when the client closed
   rejected |-> FALSE,    \* ytdl.getInfo rejected
   errLog |-> <<>>]       \* per 'error' event: what had been sent, whether
                          \* the listener answered with a payload

InitWith(requests, sources) ==
  /\ impl \in Impls
  /\ req \in requests
  /\ cookieFile \in sources
  /\ pc = "Validating"
  /\ fsCalls = <<>>
  /\ cookieHeader = <<>>
  /\ requestOptions = [empty |-> TRUE]
  /\ resolverCalls = <<>>
  /\ info = NoInfo
  /\ thrown = NothingThrown
  /\ selectedFormat = None
  /\ res = NewResponse
  /\ videoStream = NoStream
  /\ closeListener = FALSE
  /\ clientClosed = FALSE
  /\ hist = NoHistory

\* Any request, with a cookie file of CookieSources.
Init == InitWith([method : Methods, url : Urls], CookieSources)

\* A request that passes validation, with a cookie file of CookieSourcesOfFiles.
InitCookies ==
  InitWith([method : {"GET"}, url : {u \in Urls : ValidateURL(u)}], CookieSourcesOfFiles)

(***************************************************************************)
(* The handler, up to its await: the method, the url, the cookies, the     *)
(* request options and the call of ytdl.getInfo.                           *)
(***************************************************************************)
Rejects(code, payload) == [ok |-> FALSE, status |-> code, payload |-> payload]
Accepts == [ok |-> TRUE, status |-> 200, payload |-> ErrorOnly("")]

\* Validation with the url looked at before the method.
ValidationUrlFirst(revision, request) ==
  IF request.url = ""
  THEN Rejects(400, ErrorOnly("Missing required parameter: url"))
  ELSE IF request.method # "GET"
  THEN Rejects(405, ErrorOnly("Method not allowed. Use GET."))
  ELSE IF ~ValidateURL(request.url)
  THEN Rejects(400, ErrorOnly("Invalid YouTube URL format"))
  ELSE Accepts

\* Both revisions: the method first, then the url, then ytdl.validateURL.
Validation(revision, request) ==
  IF request.method # "GET"
  THEN Rejects(405, ErrorOnly("Method not allowed. Use GET."))
  ELSE IF request.url = ""
  THEN Rejects(400, IF revision = "download"
                    THEN ErrorWith("Missing required parameter: url", "usage",
                                   "/api/download?url=YOUTUBE_URL")
                    ELSE ErrorOnly("Missing required parameter: url"))
  ELSE IF ~ValidateURL(request.url)
  THEN Rejects(400, IF revision = "download"
                    THEN ErrorWith("Invalid YouTube URL format", "example",
                                   "https://www.youtube.com/watch?v=dQw4w9WgXcQ")
                    ELSE ErrorOnly("Invalid YouTube URL format"))
  ELSE Accepts

GetInfoCall(url, options) == [fn |-> "getInfo", url |-> url, requestOptions |-> options]
YtdlCall(url, format, options) ==
  [fn |-> "ytdl", url |-> url, format |-> format, requestOptions |-> options]

HandlerStart ==
  /\ pc = "Validating"
  /\ LET v == Validation(impl, req)
     IN IF ~v.ok
        THEN /\ res' = StatusJson(res, v.status, v.payload)
             /\ pc' = "Returned"
             /\ UNCHANGED <<fsCalls, cookieHeader, requestOptions, resolverCalls>>
        ELSE LET loaded == LoadCookies(impl, cookieFile)
                 options == BuildRequestOptions(impl, loaded.header)
             IN /\ fsCalls' = loaded.calls
                /\ cookieHeader' = loaded.header
                /\ requestOptions' = options
                /\ resolverCalls' = <<GetInfoCall(req.url, options)>>
                /\ pc' = "Resolving"
                /\ res' = res
  /\ UNCHANGED <<impl, req, cookieFile, info, thrown, selectedFormat, videoStream,
                 closeListener, clientClosed, hist>>

(***************************************************************************)
(* ytdl.getInfo rejects: the catch block.                                  *)
(***************************************************************************)
GetInfoRejects ==
  /\ pc = "Resolving"
  /\ \E error \in RejectionValues :
       LET caught == Catch(impl, error, res)
       IN /\ thrown' = error
          /\ res' = caught.res
          /\ pc' = IF caught.escaped THEN "Rejected" ELSE "Returned"
  /\ hist' = [hist EXCEPT !.rejected = TRUE]
  /\ UNCHANGED <<impl, req, cookieFile, fsCalls, cookieHeader, requestOptions, resolverCalls,
                 info, selectedFormat, videoStream, closeListener, clientClosed>>

(***************************************************************************)
(* ytdl.getInfo resolves: the format, the headers, the stream, its         *)
(* listeners and the pipe, up to the end of the handler.                   *)
(***************************************************************************)
GetInfoResolves ==
  /\ pc = "Resolving"
  /\ \E formats \in FormatLists, title \in Titles :
       LET selection == Select(impl, formats)
       IN /\ info' = [resolved |-> TRUE, formats |-> formats, title |-> title]
          /\ IF ~selection.found
             THEN /\ res' = StatusJson(res, 400, NoFormatPayload(impl))
                  /\ pc' = "Returned"
                  /\ UNCHANGED <<selectedFormat, resolverCalls, thrown, videoStream,
                                 closeListener>>
             ELSE LET headed == SetDownloadHeaders(impl, title, selection.format, res)
                  IN /\ selectedFormat' = selection.format
                     /\ resolverCalls' =
                          Append(resolverCalls,
                                 YtdlCall(req.url, selection.format, requestOptions))
                     /\ \/ \* ytdl() returns the stream
                           /\ videoStream' = OpenedStream
                           /\ closeListener' = TRUE
                           /\ res' = headed
                           /\ pc' = "Returned"
                           /\ thrown' = thrown
                        \/ \* ytdl() throws: the catch block
                           \E error \in OpenThrowValues :
                             LET caught == Catch(impl, error, headed)
                             IN /\ thrown' = error
                                /\ res' = caught.res
                                /\ pc' = IF caught.escaped THEN "Rejected" ELSE "Returned"
                                /\ UNCHANGED <<videoStream, closeListener>>
  /\ UNCHANGED <<impl, req, cookieFile, fsCalls, cookieHeader, requestOptions, clientClosed, hist>>

(***************************************************************************)
(* The events of the stream.  The pipe forwards a chunk to the response    *)
(* and ends the response when the source ends; an 'error' of the source    *)
(* reaches the handler's listener only, the pipe leaves the response as    *)
(* it is.  ytdl-core emits 'error' on the stream object itself             *)
(* (stream.emit('error', ...)), which a destroyed stream does not stop:    *)
(* the listener stays registered.                                          *)
(***************************************************************************)
StreamData ==
  /\ videoStream.state = "open"
  /\ videoStream.flowing
  /\ videoStream.produced < MaxChunks
  /\ LET chunk == videoStream.produced + 1
     IN /\ res' = IF videoStream.piped THEN Write(res, chunk, clientClosed) ELSE res
        \* when write returns false the pipe pauses the source
        /\ videoStream' = [videoStream EXCEPT !.produced = chunk,
                                              !.flowing = WriteReturns(res, clientClosed)]
  /\ UNCHANGED <<impl, req, cookieFile, pc, fsCalls, cookieHeader, requestOptions, resolverCalls,
                 info, thrown, selectedFormat, closeListener, clientClosed, hist>>

\* The socket takes a buffered chunk.  When the buffer is empty again the
\* response emits 'drain' and the pipe resumes the source it had paused.
SocketDrain ==
  /\ ~clientClosed
  /\ res.pending > 0
  /\ res' = [res EXCEPT !.pending = @ - 1]
  /\ videoStream' = IF res'.pending = 0 /\ videoStream.state = "open" /\ videoStream.piped
                    THEN [videoStream EXCEPT !.flowing = TRUE]
                    ELSE videoStream
  /\ UNCHANGED <<impl, req, cookieFile, pc, fsCalls, cookieHeader, requestOptions, resolverCalls,
                 info, thrown, selectedFormat, closeListener, clientClosed, hist>>

StreamEnd ==
  /\ videoStream.state = "open"
  /\ videoStream.flowing
  /\ videoStream' = [videoStream EXCEPT !.state = "ended", !.flowing = FALSE]
  /\ res' = IF videoStream.piped THEN End(res, clientClosed) ELSE res
  /\ UNCHANGED <<impl, req, cookieFile, pc, fsCalls, cookieHeader, requestOptions, resolverCalls,
                 info, thrown, selectedFormat, closeListener, clientClosed, hist>>

StreamError ==
  /\ videoStream.state \in {"open", "errored", "destroyed"}
  /\ videoStream.errors < MaxStreamErrors
  /\ \E streamError \in StreamErrorValues :
       /\ res' = StreamErrorListener(impl, streamError, res)
       /\ hist' = [hist EXCEPT !.errLog =
                     Append(@, [headersSent |-> res.headersSent,
                                body |-> Len(res.body),
                                json |-> Len(res.json),
                                closed |-> clientClosed,
                                replied |-> Len(res'.json) > Len(res.json)])]
  /\ videoStream' = [videoStream EXCEPT
                       !.state = IF @ = "open" THEN "errored" ELSE @,
                       !.flowing = FALSE,
                       !.errors = @ + 1]
  /\ UNCHANGED <<impl, req, cookieFile, pc, fsCalls, cookieHeader, requestOptions, resolverCalls,
                 info, thrown, selectedFormat, closeListener, clientClosed>>

(***************************************************************************)
(* The client connection closes.  The response emits 'close' (the pipe     *)
(* unpipes), the request emits 'close': the handler's listener runs if it  *)
(* has been registered by then, an event emitted earlier is not replayed.  *)
(***************************************************************************)
ClientClose ==
  /\ pc # "Validating"
  /\ ~clientClosed
  /\ clientClosed' = TRUE
  /\ videoStream' = IF closeListener THEN Destroy(videoStream)
                    ELSE IF videoStream.state # "none" THEN Unpipe(videoStream)
                    ELSE videoStream
  /\ hist' = [hist EXCEPT !.closedAt = pc,
                          !.bodyAtClose = Len(res.body),
                          !.jsonAtClose = Len(res.json),
                          !.streamAtClose = videoStream.state]
  /\ UNCHANGED <<impl, req, cookieFile, pc, fsCalls, cookieHeader, requestOptions, resolverCalls,
                 info, thrown, selectedFormat, res, closeListener>>

Next ==
  \/ HandlerStart
  \/ GetInfoRejects
  \/ GetInfoResolves
  \/ StreamData
  \/ SocketDrain
  \/ StreamEnd
  \/ StreamError
  \/ ClientClose

Spec == Init /\ [][Next]_vars

\* The handler up to its await, on the cookie files of CookieSourcesOfFiles.
NextCookies == HandlerStart

SpecCookies == InitCookies /\ [][NextCookies]_vars

(***************************************************************************)
(* Notions the properties share.                                           *)
(***************************************************************************)
\* The upstream stream holds nothing any more: destroyed, or over by itself.
Released(stream) == stream.state \in {"destroyed", "ended", "errored"}

\* The client closed while the body was being streamed: the handler had
\* returned with the pipe in place and the stream was still open.
ClosedWhileStreaming == hist.closedAt = "Returned" /\ hist.streamAtClose = "open"

DownloadHeaderNames == {"Content-Disposition", "Content-Length"}

CombinedOf(formats) == { i \in 1..Len(formats) : IsCombined(formats[i]) }
WithVideoOf(formats) == { i \in 1..Len(formats) : formats[i].hasVideo }

\* The combined format of the smallest height, the first of them in the list.
LowestCombined(formats) ==
  LET k == CHOOSE i \in CombinedOf(formats) :
             \A j \in CombinedOf(formats) :
               \/ formats[i].height < formats[j].height
               \/ formats[i].height = formats[j].height /\ i <= j
  IN formats[k]

\* The first format of the list with a video component.
FirstWithVideo(formats) ==
  formats[CHOOSE i \in WithVideoOf(formats) : \A j \in WithVideoOf(formats) : i <= j]

(***************************************************************************)
(* C1.  Whenever the client connection closes before streaming has         *)
(* completed, also while ytdl.getInfo is still pending, every stream the   *)
(* request opened is released: no state in which the client has closed     *)
(* and the pipe has stopped reading holds a stream that is still open.     *)
(***************************************************************************)
C1_StreamReleasedAfterClose ==
  (clientClosed /\ videoStream.state # "none" /\ ~videoStream.flowing)
    => Released(videoStream)

(***************************************************************************)
(* C2.  After the client disconnects during the streaming of the body, no  *)
(* further chunk and no error payload is written to the response: the      *)
(* request ends aborted, not failed with an error response, whatever the   *)
(* stream emits afterwards.                                                *)
(***************************************************************************)
C2_NothingWrittenAfterDisconnect ==
  ClosedWhileStreaming =>
    /\ Len(res.body) = hist.bodyAtClose
    /\ Len(res.json) = hist.jsonAtClose

(***************************************************************************)
(* C3.  When the stream errors after body bytes have been committed, no    *)
(* JSON error is sent and the response is terminated: it is ended, or its  *)
(* connection is closed, it does not stay open.                            *)
(***************************************************************************)
C3_ErrorAfterCommitTerminates ==
  \A i \in 1..Len(hist.errLog) :
    hist.errLog[i].body > 0 =>
      /\ res.json = <<>>
      /\ res.finished \/ clientClosed

(***************************************************************************)
(* C4.  Every value thrown by ytdl.getInfo or by ytdl() is caught in the   *)
(* handler and answered with one payload of one status: the handler's      *)
(* promise never rejects.                                                  *)
(***************************************************************************)
C4_EveryErrorMapped ==
  /\ pc # "Rejected"
  /\ thrown # NothingThrown =>
       /\ Len(res.json) = 1
       /\ res.statusCode \in {400, 403, 500}

(***************************************************************************)
(* C5.  For every resolved list with at least one format with both audio   *)
(* and video, the selected format is the combined format of the smallest   *)
(* height, the first of them on a tie.                                     *)
(***************************************************************************)
C5_LowestCombinedSelected ==
  (info.resolved /\ CombinedOf(info.formats) # {})
    => selectedFormat = LowestCombined(info.formats)

(***************************************************************************)
(* C6.  For every resolved list with no combined format and at least one   *)
(* format with video, the first format with video is selected and the      *)
(* request goes on to streaming: no error payload answers it.              *)
(***************************************************************************)
C6_FirstVideoFallback ==
  (info.resolved /\ CombinedOf(info.formats) = {} /\ WithVideoOf(info.formats) # {})
    => /\ selectedFormat = FirstWithVideo(info.formats)
       /\ thrown = NothingThrown => (videoStream.state # "none" /\ res.statusCode # 400)

(***************************************************************************)
(* C7.  When the resolved list is empty or holds no format with a video    *)
(* component, the handler answers 400 with one payload, sets no download   *)
(* header and never calls ytdl(): no stream is opened.                     *)
(***************************************************************************)
C7_NoVideoFormatIs400 ==
  (info.resolved /\ WithVideoOf(info.formats) = {}) =>
    /\ pc = "Returned"
    /\ res.statusCode = 400
    /\ Len(res.json) = 1
    /\ res.json[1].status = 400
    /\ DOMAIN res.headers \cap DownloadHeaderNames = {}
    /\ res.headers["Content-Type"] = "application/json"
    /\ res.body = <<>>
    /\ videoStream.state = "none"
    /\ \A i \in 1..Len(resolverCalls) : resolverCalls[i].fn # "ytdl"

\* A list of audio-only formats has been answered with the 400 payload.
C7_Witness ==
  /\ info.resolved
  /\ info.formats # <<>>
  /\ WithVideoOf(info.formats) = {}
  /\ res.statusCode = 400
  /\ res.finished

InvalidRequest == req.method # "GET" \/ req.url = "" \/ ~ValidateURL(req.url)

(***************************************************************************)
(* C8.  A request that fails validation is answered in the first step and  *)
(* nothing else happens: 405 for a method other than GET, whatever the     *)
(* url, 400 for a GET whose url is missing or refused by ytdl.validateURL; *)
(* no call to fs, no call to the resolver, no stream.                      *)
(***************************************************************************)
C8_InvalidRequestRejected ==
  (InvalidRequest /\ pc # "Validating") =>
    /\ pc = "Returned"
    /\ res.statusCode = (IF req.method # "GET" THEN 405 ELSE 400)
    /\ Len(res.json) = 1
    /\ res.json[1].status = res.statusCode
    /\ res.finished
    /\ fsCalls = <<>>
    /\ resolverCalls = <<>>
    /\ ~info.resolved
    /\ videoStream.state = "none"
    /\ res.body = <<>>

\* A POST without url has been answered 405: the method is tested first.
C8_Witness ==
  /\ req.method = "POST"
  /\ req.url = ""
  /\ pc = "Returned"
  /\ res.statusCode = 405

MarksPrivate(error) ==
  error.shape = "Error" /\ ("private" \in error.keys \/ "unavailable" \in error.keys)

(***************************************************************************)
(* C9.  When ytdl.getInfo rejects with an error whose message contains     *)
(* 'private' or 'unavailable', the handler answers 403 with one structured *)
(* payload, and neither a download header nor a body chunk is sent.        *)
(***************************************************************************)
C9_PrivateIs403 ==
  (hist.rejected /\ MarksPrivate(thrown)) =>
    /\ pc = "Returned"
    /\ res.statusCode = 403
    /\ Len(res.json) = 1
    /\ res.json[1].status = 403
    /\ "error" \in DOMAIN res.json[1].payload
    /\ DOMAIN res.headers \cap DownloadHeaderNames = {}
    /\ res.headers["Content-Type"] = "application/json"
    /\ res.body = <<>>
    /\ videoStream.state = "none"

\* A rejection whose message holds 'private' next to 'format' got the 403.
C9_Witness ==
  /\ hist.rejected
  /\ thrown.shape = "Error"
  /\ thrown.keys = {"format", "private"}
  /\ res.statusCode = 403

NothingSent(entry) == entry.body = 0 /\ entry.json = 0

(***************************************************************************)
(* C10.  An 'error' of the stream is answered with a payload if and only   *)
(* if nothing of the response had been sent when it arrived; the payload   *)
(* is then the only one of the response, its status is 500 and its error   *)
(* is 'Stream failed'.                                                     *)
(***************************************************************************)
C10_StreamError500IffNothingSent ==
  /\ \A i \in 1..Len(hist.errLog) :
       LET entry == hist.errLog[i]
       IN /\ entry.replied <=> NothingSent(entry)
          /\ NothingSent(entry) <=> ~entry.headersSent
          /\ entry.replied =>
               /\ Len(res.json) = 1
               /\ res.json[1].status = 500
               /\ res.json[1].payload["error"] = "Stream failed"
               /\ res.statusCode = 500
               /\ res.body = <<>>
  /\ hist.errLog # <<>> => Len(res.json) <= 1

\* The stream failed twice with the client connected and nothing sent: the
\* first error got the 500 payload, the second got none.
C10_Witness ==
  /\ Len(hist.errLog) = 2
  /\ ~hist.errLog[1].closed
  /\ hist.errLog[1].replied
  /\ hist.errLog[2].json = 1
  /\ ~hist.errLog[2].replied
  /\ res.statusCode = 500

\* A line that, trimmed, is non-empty, starts with neither comment marker,
\* has at least seven tab-separated fields and non-empty fields 5 and 6
\* (counted from 0).
QualifyingLine(line) ==
  LET fields == Split(Trim(line), "\t")
  IN /\ Trim(line) # <<>>
     /\ ~StartsWith(Trim(line), <<"#">>)
     /\ ~StartsWith(Trim(line), <<"/", "/">>)
     /\ Len(fields) >= 7
     /\ fields[6] # <<>>
     /\ fields[7] # <<>>

NameValueOf(line) ==
  LET fields == Split(Trim(line), "\t") IN fields[6] \o <<"=">> \o fields[7]

QualifyingTokens(content) ==
  LET qualifying == SelectSeq(Split(content, "\n"), QualifyingLine)
  IN [i \in 1..Len(qualifying) |-> NameValueOf(qualifying[i])]

CookiesRead == fsCalls # <<>> /\ cookieFile.exists /\ cookieFile.readable

(***************************************************************************)
(* C11.  The cookie header built from a readable file is the name=value    *)
(* tokens of exactly the qualifying lines, in line order, joined by "; ";  *)
(* no other line adds a token.                                             *)
(***************************************************************************)
C11_HeaderOfQualifyingLines ==
  CookiesRead => cookieHeader = Join(QualifyingTokens(cookieFile.content), <<";", " ">>)

\* A file of which every line, trimmed, is empty or a comment.
CommentOnly(content) ==
  \A i \in 1..Len(Split(content, "\n")) :
    LET trimmed == Trim(Split(content, "\n")[i])
    IN trimmed = <<>> \/ StartsWith(trimmed, <<"#">>) \/ StartsWith(trimmed, <<"/", "/">>)

NoUsableCookies ==
  ~cookieFile.exists \/ ~cookieFile.readable \/ CommentOnly(cookieFile.content)

(***************************************************************************)
(* C12.  A cookie file that is absent, unreadable, empty or made of        *)
(* comments only gives the empty cookie header, nothing is thrown, and the *)
(* request goes on to the resolver call without a Cookie header.           *)
(***************************************************************************)
C12_NoCookiesContinueWithout ==
  (fsCalls # <<>> /\ NoUsableCookies) =>
    /\ cookieHeader = <<>>
    /\ pc = "Resolving"
    /\ thrown = NothingThrown
    /\ res.json = <<>>
    /\ requestOptions = [empty |-> TRUE]

CarriesCookie(options) == "headers" \in DOMAIN options

(***************************************************************************)
(* C13.  Every call made to the resolver (getInfo, then ytdl) is given the *)
(* one requestOptions object built before the first call; the options      *)
(* carry a Cookie header if and only if the cookie header is non-empty,    *)
(* and the Cookie header is then the cookie header.  Without a cookie file *)
(* no call carries a Cookie header.                                        *)
(***************************************************************************)
C13_CookieAttachedIffLoaded ==
  \A i \in 1..Len(resolverCalls) :
    LET options == resolverCalls[i].requestOptions
    IN /\ options = requestOptions
       /\ CarriesCookie(options) <=> cookieHeader # <<>>
       /\ CarriesCookie(options) => options.headers.Cookie = cookieHeader
       /\ ~cookieFile.exists => ~CarriesCookie(options)

\* getInfo and ytdl were both called with the Cookie header of the file.
C13_Witness ==
  /\ Len(resolverCalls) = 2
  /\ resolverCalls[1].fn = "getInfo"
  /\ resolverCalls[2].fn = "ytdl"
  /\ cookieHeader # <<>>
  /\ resolverCalls[2].requestOptions.headers.Cookie = cookieHeader

\* The stream was opened and no payload replaced the download response.
Downloading == videoStream.state # "none" /\ res.json = <<>>

(***************************************************************************)
(* C14.  On the success path the response carries Content-Type video/mp4   *)
(* and a Content-Disposition from the moment the stream is opened, hence   *)
(* before any body chunk; Content-Length is set if and only if the length  *)
(* of the selected format is known, and is then that length.               *)
(***************************************************************************)
C14_HeadersBeforeBody ==
  Downloading =>
    /\ res.headers["Content-Type"] = "video/mp4"
    /\ "Content-Disposition" \in DOMAIN res.headers
    /\ "Content-Length" \in DOMAIN res.headers <=> selectedFormat.contentLength # ""
    /\ "Content-Length" \in DOMAIN res.headers =>
         res.headers["Content-Length"] = selectedFormat.contentLength

(***************************************************************************)
(* C15.  The details of every payload sent is at most DetailsCap           *)
(* characters long.                                                        *)
(***************************************************************************)
C15_DetailsBounded ==
  \A i \in 1..Len(res.json) :
    "details" \in DOMAIN res.json[i].payload =>
      res.json[i].payload["details"].len <= DetailsCap

(***************************************************************************)
(* C16.  The chunks read from the stream and not yet taken by the socket   *)
(* never exceed the high-water mark of the response, and while the buffer  *)
(* of the response is full the stream is paused: the pipe reads a further  *)
(* chunk only after the response has drained.                              *)
(***************************************************************************)
C16_BufferBounded ==
  /\ res.pending <= HighWaterMark
  /\ Len(res.body) - res.pending >= 0
  /\ res.pending >= HighWaterMark => ~videoStream.flowing

\* The pipe paused the stream on a full buffer, the response drained, the
\* stream was resumed and its last chunk filled the buffer again.
C16_Witness ==
  /\ videoStream.state = "open"
  /\ videoStream.produced = MaxChunks
  /\ Len(res.body) = MaxChunks
  /\ res.pending = HighWaterMark
  /\ ~videoStream.flowing
  /\ ~clientClosed

\* The chunks the stream has emitted, in order.
Upstream == [i \in 1..videoStream.produced |-> i]

IsPrefix(s, t) == Len(s) <= Len(t) /\ \A i \in 1..Len(s) : s[i] = t[i]

EndedConnected == videoStream.state = "ended" /\ ~clientClosed

(***************************************************************************)
(* C17.  The chunks written to the response are at every moment a prefix   *)
(* of the chunks the stream has emitted; once the stream has ended with    *)
(* the client connected, the response is ended, no payload was sent, and   *)
(* the chunks written are all the chunks of the stream, in order.          *)
(***************************************************************************)
C17_CompletedRelaysEverything ==
  /\ IsPrefix(res.body, Upstream)
  /\ EndedConnected =>
       /\ res.finished
       /\ res.headersSent
       /\ res.json = <<>>
       /\ res.statusCode = 200
       /\ res.body = Upstream

\* The stream emitted MaxChunks chunks and ended with the client connected.
C17_Witness ==
  /\ EndedConnected
  /\ videoStream.produced = MaxChunks
  /\ res.body = Upstream
  /\ res.finished

\* How the request has ended, as the client and the stream see it: a payload
\* was sent (Failed), the stream ended and so did the response (Completed),
\* the client closed before either (Aborted), or it has not ended yet.
Outcome ==
  IF res.json # <<>> THEN "Failed"
  ELSE IF videoStream.state = "ended" /\ res.finished THEN "Completed"
  ELSE IF clientClosed THEN "Aborted"
  ELSE "Open"

OneResponse ==
  /\ Len(res.json) <= 1
  /\ res.json # <<>> => res.body = <<>>

(***************************************************************************)
(* C18.  At most one response is started per request: at most one payload  *)
(* is sent, and none next to a body chunk.  A request that has ended as    *)
(* Completed, Failed or Aborted keeps that outcome whatever event follows. *)
(***************************************************************************)
C18_OneResponseOneOutcome ==
  /\ []OneResponse
  /\ [][Outcome # "Open" => Outcome' = Outcome]_vars

(***************************************************************************)
(* C19.  A response on which a payload was sent carries none of the        *)
(* headers of the download (Content-Disposition, Content-Length of the     *)
(* media file).                                                            *)
(***************************************************************************)
C19_NoPayloadOnDownloadResponse ==
  res.json # <<>> => DOMAIN res.headers \cap DownloadHeaderNames = {}

====
